---- MODULE Spec2Model ----
(***************************************************************************)
(* Model of image_to_tileset.py: tile_is_same, create_tile_list,           *)
(* save_to_tileset and the part of main that chains them.                  *)
(*                                                                         *)
(* The script is Python 2 code (xrange, "/" used as an index), whatever    *)
(* its "#!" line says: "/" on ints is floor division and raises            *)
(* ZeroDivisionError on a zero divisor.                                    *)
(*                                                                         *)
(* An image is a record [w, h, px] with px a function from <<x, y>>        *)
(* (0 <= x < w, 0 <= y < h) to an RGBA pixel <<r, g, b, a>>.  The imaging  *)
(* library's crop, new, paste and getpixel are modelled by what they do on *)
(* such a grid; save is the hand-off of the finished canvas.               *)
(***************************************************************************)
EXTENDS Integers, Sequences, FiniteSets

VARIABLES
    pc,         \* position of the program
    err,        \* the exception that ended the run, "none" if none
    im,         \* main: the opened source image
    tile_w,     \* args.tile_width
    tile_h,     \* args.tile_height
    rows,       \* create_tile_list: bound of xrange(0, im_h / tile_h)
    cols,       \* create_tile_list: bound of xrange(0, im_w / tile_w)
    y,          \* create_tile_list: outer loop variable
    x,          \* create_tile_list: inner loop variable
    tile_list,  \* create_tile_list: the list being built; save_to_tileset: its argument
    new_tile,   \* create_tile_list: the last crop; tile_is_same: second argument
    crops,      \* history: the crop boxes passed to im.crop, in call order
    tileset,    \* save_to_tileset: the canvas
    i,          \* save_to_tileset: index of the next tile to paste
    pasted,     \* history: the offsets passed to tileset.paste, in call order
    saved,      \* the image written by tileset.save, EmptyImage before
    tile,       \* tile_is_same: first argument (comparison runs only)
    same        \* tile_is_same: returned value (comparison runs only)

vars == <<pc, err, im, tile_w, tile_h, rows, cols, y, x, tile_list, new_tile,
          crops, tileset, i, pasted, saved, tile, same>>

----------------------------------------------------------------------------
(* Bounds of the model *)

\* source images of the exhaustive family have at most this many pixels
MaxArea == 4
\* largest tile width/height tried on the exhaustive family
MaxTile == 2
\* longest strip image (number of distinct tiles) fed to the packer
MaxTiles == 18
\* tiles compared directly by tile_is_same have at most this many pixels
CmpArea == 2

(* Program constants *)

TILES_IN_ROW == 16
DefaultTile == 8

----------------------------------------------------------------------------
(* Pixels and images *)

Transparent == <<0, 0, 0, 0>>
TransparentGarbage == <<10, 20, 30, 0>>
Red == <<255, 0, 0, 255>>
Blue == <<0, 0, 255, 255>>
RedHalf == <<255, 0, 0, 128>>

\* pixels of the exhaustively enumerated source images
Palette == {Transparent, TransparentGarbage, Red, Blue}
\* pixels of the directly compared tiles
CmpPalette == Palette \cup {RedHalf}

Pos(w, h) == (0 .. w - 1) \X (0 .. h - 1)

EmptyImage == [w |-> 0, h |-> 0, px |-> [p \in {} |-> Transparent]]

Min(a, b) == IF a < b THEN a ELSE b

\* Python 2 int "/" for a non-zero divisor: floor division
PyDiv(a, b) == IF b > 0 THEN a \div b ELSE (0 - a) \div (0 - b)

\* Image.getpixel((px_x, px_y))
getpixel(img, px_x, px_y) == img.px[<<px_x, px_y>>]

\* Image.crop(box): a new image of the box's size; pixels outside the source
\* are zero
crop(img, box) ==
    LET left == box[1]
        upper == box[2]
        w == box[3] - box[1]
        h == box[4] - box[2]
    IN  [w |-> w, h |-> h,
         px |-> [p \in Pos(w, h) |->
                   IF /\ left + p[1] >= 0 /\ left + p[1] < img.w
                      /\ upper + p[2] >= 0 /\ upper + p[2] < img.h
                   THEN img.px[<<left + p[1], upper + p[2]>>]
                   ELSE Transparent]]

\* Image.new('RGBA', (w, h)): every pixel (0, 0, 0, 0)
new(w, h) == [w |-> w, h |-> h, px |-> [p \in Pos(w, h) |-> Transparent]]

\* Image.paste(src, (off_x, off_y)) with no mask: plain overwrite, clipped to
\* the canvas
paste(canvas, src, off_x, off_y) ==
    [canvas EXCEPT !.px =
        [p \in Pos(canvas.w, canvas.h) |->
            IF /\ p[1] >= off_x /\ p[1] < off_x + src.w
               /\ p[2] >= off_y /\ p[2] < off_y + src.h
            THEN src.px[<<p[1] - off_x, p[2] - off_y>>]
            ELSE canvas.px[p]]]

----------------------------------------------------------------------------
(* tile_is_same *)

\* mutant: only the first tile's alpha is tested
PixelMatchesFirstAlpha(tile_pixel, new_tile_pixel) ==
    IF tile_pixel[4] = 0
    THEN TRUE
    ELSE tile_pixel = new_tile_pixel

\* mutant: "or" for "and" in the alpha test
PixelMatchesEitherAlpha(tile_pixel, new_tile_pixel) ==
    IF tile_pixel[4] = 0 \/ new_tile_pixel[4] = 0
    THEN TRUE
    ELSE tile_pixel = new_tile_pixel

\* lines 31-35, one pixel of the scan: "continue" is TRUE (go on), a
\* mismatch is FALSE (return False)
PixelMatches(tile_pixel, new_tile_pixel) ==
    IF tile_pixel[4] = 0 /\ new_tile_pixel[4] = 0
    THEN TRUE
    ELSE tile_pixel = new_tile_pixel

\* lines 26-36: the raster scan from pixel number k (y = k div width,
\* x = k mod width), returning False at the first mismatch
RECURSIVE ScanFrom(_, _, _)
ScanFrom(t, nt, k) ==
    IF k >= t.w * t.h THEN TRUE
    ELSE LET px_x == k % t.w
             px_y == k \div t.w
         IN  IF PixelMatches(getpixel(t, px_x, px_y), getpixel(nt, px_x, px_y))
             THEN ScanFrom(t, nt, k + 1)
             ELSE FALSE

\* lines 13-36
tile_is_same(t, nt) ==
    IF <<t.w, t.h>> # <<nt.w, nt.h>> THEN FALSE
    ELSE ScanFrom(t, nt, 0)

----------------------------------------------------------------------------
(* create_tile_list *)

\* lines 56-59: the crop box of cell (cx, cy)
CropBox(cx, cy) ==
    LET left == cx * tile_w
        upper == cy * tile_h
        right == left + tile_w
        lower == upper + tile_h
    IN  <<left, upper, right, lower>>

\* mutant: rounds up, so a partial bottom row is scanned
RowCountCeil == PyDiv(im.h + tile_h - 1, tile_h)

\* line 54: the bound of the outer xrange
RowCount == PyDiv(im.h, tile_h)

\* line 55: the bound of the inner xrange
ColCount == PyDiv(im.w, tile_w)

\* mutant: the duplicate test is skipped
add_tile_always(list, nt) == TRUE

\* lines 63-67: add_tile after the loop over tile_list
add_tile(list, nt) == \A k \in 1 .. Len(list) : ~tile_is_same(list[k], nt)

\* mutant: the new tile goes to the front of the list
append_front(list, nt) == <<nt>> \o list

\* line 70
append(list, nt) == Append(list, nt)

\* lines 62-70: the list after one new tile has been tested and, if unique,
\* appended
DedupStep(list, nt) == IF add_tile(list, nt) THEN append(list, nt) ELSE list

\* the inner xrange's next value
NextX(cx) == cx + 1

\* mutant: the outer loop variable is not advanced
SameY(cy) == cy

\* the outer xrange's next value
NextY(cy) == cy + 1

\* line 54: the outer xrange is built; a zero tile_h raises ZeroDivisionError
StartScan ==
    /\ pc = "create_tile_list"
    /\ tile_h # 0
    /\ rows' = RowCount
    /\ y' = 0
    /\ pc' = "row"
    /\ UNCHANGED <<err, im, tile_w, tile_h, cols, x, tile_list, new_tile, crops,
                   tileset, i, pasted, saved, tile, same>>

StartScanZeroDivision ==
    /\ pc = "create_tile_list"
    /\ tile_h = 0
    /\ pc' = "error"
    /\ err' = "ZeroDivisionError"
    /\ UNCHANGED <<im, tile_w, tile_h, rows, cols, y, x, tile_list, new_tile,
                   crops, tileset, i, pasted, saved, tile, same>>

\* lines 54-55: the outer loop yields y and the inner xrange is built; a zero
\* tile_w raises ZeroDivisionError
RowStart ==
    /\ pc = "row"
    /\ y < rows
    /\ tile_w # 0
    /\ cols' = ColCount
    /\ x' = 0
    /\ pc' = "cell"
    /\ UNCHANGED <<err, im, tile_w, tile_h, rows, y, tile_list, new_tile, crops,
                   tileset, i, pasted, saved, tile, same>>

RowStartZeroDivision ==
    /\ pc = "row"
    /\ y < rows
    /\ tile_w = 0
    /\ pc' = "error"
    /\ err' = "ZeroDivisionError"
    /\ UNCHANGED <<im, tile_w, tile_h, rows, cols, y, x, tile_list, new_tile,
                   crops, tileset, i, pasted, saved, tile, same>>

\* lines 56-70: one grid cell
ScanCell ==
    /\ pc = "cell"
    /\ x < cols
    /\ LET box == CropBox(x, y)
           nt == crop(im, box)
       IN  /\ new_tile' = nt
           /\ crops' = Append(crops, box)
           /\ tile_list' = DedupStep(tile_list, nt)
    /\ x' = NextX(x)
    /\ UNCHANGED <<pc, err, im, tile_w, tile_h, rows, cols, y, tileset, i,
                   pasted, saved, tile, same>>

\* line 55: the inner xrange is exhausted
RowEnd ==
    /\ pc = "cell"
    /\ x >= cols
    /\ y' = NextY(y)
    /\ pc' = "row"
    /\ UNCHANGED <<err, im, tile_w, tile_h, rows, cols, x, tile_list, new_tile,
                   crops, tileset, i, pasted, saved, tile, same>>

\* lines 54, 72-73, 120-121: the outer xrange is exhausted, the list is
\* returned and main passes it to save_to_tileset
ReturnTileList ==
    /\ pc = "row"
    /\ y >= rows
    /\ pc' = "save_to_tileset"
    /\ UNCHANGED <<err, im, tile_w, tile_h, rows, cols, y, x, tile_list,
                   new_tile, crops, tileset, i, pasted, saved, tile, same>>

----------------------------------------------------------------------------
(* save_to_tileset *)

\* mutant: the width is always a full row
TilesetWFullRow(n) == TILES_IN_ROW * tile_w

\* lines 87-90
TilesetW(n) == IF n < TILES_IN_ROW THEN n * tile_w ELSE TILES_IN_ROW * tile_w

\* mutant: the "+ 1" is dropped
TilesetHNoExtraRow(n) == PyDiv(n, TILES_IN_ROW) * tile_h

\* line 91
TilesetH(n) == (PyDiv(n, TILES_IN_ROW) + 1) * tile_h

\* mutant: the row offset is scaled by the tile width
PasteOffsetRowByWidth(k) ==
    <<(k % TILES_IN_ROW) * tile_w, PyDiv(k, TILES_IN_ROW) * tile_w>>

\* lines 95-96: where tile number k is pasted
PasteOffset(k) == <<(k % TILES_IN_ROW) * tile_w, PyDiv(k, TILES_IN_ROW) * tile_h>>

\* lines 86-92: the canvas is allocated; Image.new raises ValueError for a
\* negative width or height
NewTileset ==
    /\ pc = "save_to_tileset"
    /\ TilesetW(Len(tile_list)) >= 0
    /\ TilesetH(Len(tile_list)) >= 0
    /\ tileset' = new(TilesetW(Len(tile_list)), TilesetH(Len(tile_list)))
    /\ i' = 0
    /\ pc' = "paste"
    /\ UNCHANGED <<err, im, tile_w, tile_h, rows, cols, y, x, tile_list,
                   new_tile, crops, pasted, saved, tile, same>>

NewTilesetNegativeSize ==
    /\ pc = "save_to_tileset"
    /\ \/ TilesetW(Len(tile_list)) < 0
       \/ TilesetH(Len(tile_list)) < 0
    /\ pc' = "error"
    /\ err' = "ValueError"
    /\ UNCHANGED <<im, tile_w, tile_h, rows, cols, y, x, tile_list, new_tile,
                   crops, tileset, i, pasted, saved, tile, same>>

\* lines 94-97: one tile is pasted
PasteTile ==
    /\ pc = "paste"
    /\ i < Len(tile_list)
    /\ LET off == PasteOffset(i)
       IN  /\ tileset' = paste(tileset, tile_list[i + 1], off[1], off[2])
           /\ pasted' = Append(pasted, off)
    /\ i' = i + 1
    /\ UNCHANGED <<pc, err, im, tile_w, tile_h, rows, cols, y, x, tile_list,
                   new_tile, crops, saved, tile, same>>

\* lines 99-100: the loop is over and the canvas is saved
SaveTileset ==
    /\ pc = "paste"
    /\ i >= Len(tile_list)
    /\ saved' = tileset
    /\ pc' = "done"
    /\ UNCHANGED <<err, im, tile_w, tile_h, rows, cols, y, x, tile_list,
                   new_tile, crops, tileset, i, pasted, tile, same>>

----------------------------------------------------------------------------
(* The runs of main *)

\* every image of w x h pixels over the palette
ImagesOf(w, h, palette) ==
    {[w |-> w, h |-> h, px |-> f] : f \in [Pos(w, h) -> palette]}

Shapes(area) == {s \in (1 .. area) \X (1 .. area) : s[1] * s[2] <= area}

\* the exhaustively enumerated source images
SmallImages == UNION {ImagesOf(s[1], s[2], Palette) : s \in Shapes(MaxArea)}

\* -x / -y values tried on them: negative, zero, small, and the default
TileDims == (-1 .. MaxTile) \cup {DefaultTile}

\* the k-th colour of a strip: red, blue, then further opaque colours
StripColor(k) ==
    IF k = 0 THEN Red ELSE IF k = 1 THEN Blue ELSE <<k, 255, 0, 255>>

\* an image of n solid tiles of tw x th pixels side by side, all different
StripImage(n, tw, th) ==
    [w |-> n * tw, h |-> th,
     px |-> [p \in Pos(n * tw, th) |-> StripColor(p[1] \div tw)]]

StripTileSizes == {<<1, 1>>, <<2, 1>>, <<1, 2>>, <<DefaultTile, DefaultTile>>}

\* main, lines 117-120: the arguments are parsed and the image is opened
InitMain(image, tw, th) ==
    /\ pc = "create_tile_list"
    /\ err = "none"
    /\ im = image
    /\ tile_w = tw
    /\ tile_h = th
    /\ rows = 0
    /\ cols = 0
    /\ y = 0
    /\ x = 0
    /\ tile_list = <<>>
    /\ new_tile = EmptyImage
    /\ crops = <<>>
    /\ tileset = EmptyImage
    /\ i = 0
    /\ pasted = <<>>
    /\ saved = EmptyImage
    /\ tile = EmptyImage
    /\ same = FALSE

Init ==
    \/ \E image \in SmallImages, tw \in TileDims, th \in TileDims :
          InitMain(image, tw, th)
    \/ \E n \in 1 .. MaxTiles, s \in StripTileSizes :
          InitMain(StripImage(n, s[1], s[2]), s[1], s[2])

Next ==
    \/ StartScan
    \/ StartScanZeroDivision
    \/ RowStart
    \/ RowStartZeroDivision
    \/ ScanCell
    \/ RowEnd
    \/ ReturnTileList
    \/ NewTileset
    \/ NewTilesetNegativeSize
    \/ PasteTile
    \/ SaveTileset

Spec == Init /\ [][Next]_vars

\* the interpreter runs the single thread until it returns or raises
FairSpec == Init /\ [][Next]_vars /\ WF_vars(Next)

----------------------------------------------------------------------------
(* Direct calls of tile_is_same *)

\* the tiles compared directly
CmpTiles == UNION {ImagesOf(s[1], s[2], CmpPalette) : s \in Shapes(CmpArea)}

InitSame ==
    /\ pc = "tile_is_same"
    /\ err = "none"
    /\ im = EmptyImage
    /\ tile_w = 0
    /\ tile_h = 0
    /\ rows = 0
    /\ cols = 0
    /\ y = 0
    /\ x = 0
    /\ tile_list = <<>>
    /\ crops = <<>>
    /\ tileset = EmptyImage
    /\ i = 0
    /\ pasted = <<>>
    /\ saved = EmptyImage
    /\ tile \in CmpTiles
    /\ new_tile \in CmpTiles
    /\ same = FALSE

\* lines 13-36: one call tile_is_same(tile, new_tile)
CallTileIsSame ==
    /\ pc = "tile_is_same"
    /\ same' = tile_is_same(tile, new_tile)
    /\ pc' = "returned"
    /\ UNCHANGED <<err, im, tile_w, tile_h, rows, cols, y, x, tile_list,
                   new_tile, crops, tileset, i, pasted, saved, tile>>

NextSame == CallTileIsSame

SpecSame == InitSame /\ [][NextSame]_vars

----------------------------------------------------------------------------
(* Properties *)

\* the scan of create_tile_list is over
Scanned == pc \in {"save_to_tileset", "paste", "done"}

\* the canvas exists
Allocated == pc \in {"paste", "done"}

\* the tile cropped by the k-th call of im.crop
CellCrop(k) == crop(im, crops[k])

\* the rule of the transparency-aware comparison, stated over all positions
\* at once
SameByRule(a, b) ==
    /\ a.w = b.w
    /\ a.h = b.h
    /\ \A p \in Pos(a.w, a.h) :
          \/ a.px[p][4] = 0 /\ b.px[p][4] = 0
          \/ a.px[p] = b.px[p]

\* C1: tile_is_same returns False for tiles of different width or height,
\* and otherwise True exactly when at every position both pixels have alpha 0
\* or the two RGBA tuples are identical; a channel difference where one side
\* has alpha > 0 makes the tiles unequal.
C1_TileIsSameRule ==
    pc = "returned" =>
        /\ (tile.w # new_tile.w \/ tile.h # new_tile.h) => same = FALSE
        /\ same = SameByRule(tile, new_tile)
        /\ (/\ tile.w = new_tile.w
            /\ tile.h = new_tile.h
            /\ \E p \in Pos(tile.w, tile.h) :
                  /\ tile.px[p] # new_tile.px[p]
                  /\ (tile.px[p][4] > 0 \/ new_tile.px[p][4] > 0))
           => same = FALSE

\* two tiles that differ only behind full transparency were judged equal
C1_Witness ==
    /\ pc = "returned"
    /\ same = TRUE
    /\ tile # new_tile
    /\ tile.w = 2
    /\ \E p \in Pos(tile.w, tile.h) : tile.px[p][4] > 0

\* C2: at every point of the scan and in the returned list, no two distinct
\* entries of tile_list are equal under tile_is_same.
C2_NoTwoEqualTiles ==
    \A j \in 1 .. Len(tile_list), k \in 1 .. Len(tile_list) :
        j # k => ~tile_is_same(tile_list[j], tile_list[k])

\* a scan that kept two tiles and rejected a duplicate
C2_Witness ==
    /\ pc = "cell"
    /\ Len(tile_list) >= 2
    /\ Len(crops) > Len(tile_list)

\* the cells, by number in scan order, that no earlier cell equals
FirstSeenCells ==
    {k \in 1 .. Len(crops) :
        \A j \in 1 .. k - 1 : ~tile_is_same(CellCrop(j), CellCrop(k))}

\* the position in the list of first-seen cell k
Rank(k) == Cardinality({j \in FirstSeenCells : j <= k})

\* C3: a cell's crop is in the list iff no earlier cell in scan order equals
\* it; the entry is the pixel-exact crop of that first cell; the list is in
\* the scan order of those cells; every scanned cell equals some entry; and
\* a grid of one repeated pattern yields exactly one tile.
C3_FirstSeenInOrder ==
    /\ Len(tile_list) = Cardinality(FirstSeenCells)
    /\ \A k \in FirstSeenCells : tile_list[Rank(k)] = CellCrop(k)
    /\ \A k \in 1 .. Len(crops) :
          \E t \in 1 .. Len(tile_list) : tile_is_same(tile_list[t], CellCrop(k))
    /\ (/\ Len(crops) >= 1
        /\ \A k \in 1 .. Len(crops) : CellCrop(k) = CellCrop(1))
       => Len(tile_list) = 1

\* a finished scan that dropped a cell whose pixels differ from the kept
\* first occurrence, and kept a later different tile
C3_Witness ==
    /\ pc = "save_to_tileset"
    /\ Len(tile_list) = 2
    /\ \E k \in 2 .. Len(crops) :
          /\ k < Len(crops)
          /\ tile_is_same(CellCrop(1), CellCrop(k))
          /\ CellCrop(1) # CellCrop(k)

\* C4: for positive tile sizes the scan visits exactly the cells (row, col)
\* with row < floor(im_h / tile_h), col < floor(im_w / tile_w) in row-major
\* order, crops the half-open box of each, never reads a pixel of the
\* remainder, and returns the empty list without error when a tile is larger
\* than the image.
C4_CellsVisited ==
    (tile_w > 0 /\ tile_h > 0) =>
        LET R == im.h \div tile_h
            C == im.w \div tile_w
        IN  /\ err = "none"
            /\ Len(crops) <= R * C
            /\ pc = "cell" => Len(crops) = y * C + x
            /\ Scanned => Len(crops) = R * C
            /\ \A k \in 1 .. Len(crops) :
                  LET row == (k - 1) \div C
                      col == (k - 1) % C
                  IN  /\ row < R
                      /\ crops[k] = <<col * tile_w, row * tile_h,
                                      col * tile_w + tile_w, row * tile_h + tile_h>>
                      /\ crops[k][3] <= C * tile_w
                      /\ crops[k][4] <= R * tile_h
                      /\ CellCrop(k).w = tile_w
                      /\ CellCrop(k).h = tile_h
                      /\ \A p \in Pos(tile_w, tile_h) :
                            CellCrop(k).px[p] =
                                im.px[<<col * tile_w + p[1], row * tile_h + p[2]>>]
            /\ \A t \in 1 .. Len(tile_list) :
                  \E k \in 1 .. Len(crops) : tile_list[t] = CellCrop(k)
            /\ (Scanned /\ (tile_w > im.w \/ tile_h > im.h)) => tile_list = <<>>

\* a finished scan of an image three pixels wide with tiles two pixels wide:
\* one column of cells, the third pixel column dropped
C4_Witness ==
    /\ pc = "save_to_tileset"
    /\ im.w = 3
    /\ tile_w = 2
    /\ tile_h = 1
    /\ Len(crops) = 1

\* C5 (as claimed): for every number N of unique tiles the canvas is
\* min(N, 16) * tile_w wide and ceil(N / 16) * tile_h high.  Stated for the
\* runs that found at least one tile; the canvas of an empty list is C7's.
C5_CeilHeightClaim ==
    (Allocated /\ Len(tile_list) >= 1) =>
        /\ tileset.w = Min(Len(tile_list), 16) * tile_w
        /\ tileset.h = ((Len(tile_list) + 15) \div 16) * tile_h

\* boxes of tile_w x tile_h pixels at two paste offsets do not overlap
Disjoint(a, b) ==
    \/ a[1] + tile_w <= b[1]
    \/ b[1] + tile_w <= a[1]
    \/ a[2] + tile_h <= b[2]
    \/ b[2] + tile_h <= a[2]

\* canvas position p lies in the block pasted at offset off
InBlock(p, off) ==
    /\ off[1] <= p[1] /\ p[1] < off[1] + tile_w
    /\ off[2] <= p[2] /\ p[2] < off[2] + tile_h

\* C6: tile i is pasted at ((i mod 16) * tile_w, (i div 16) * tile_h) by
\* plain overwrite; its block lies inside the canvas and equals the tile;
\* blocks do not overlap; every other canvas pixel is (0, 0, 0, 0).
C6_RowMajorPacking ==
    Allocated =>
        /\ Len(pasted) = i
        /\ pc = "done" => i = Len(tile_list)
        /\ \A k \in 1 .. i :
              /\ pasted[k] = <<((k - 1) % 16) * tile_w, ((k - 1) \div 16) * tile_h>>
              /\ tile_list[k].w = tile_w
              /\ tile_list[k].h = tile_h
              /\ pasted[k][1] >= 0
              /\ pasted[k][2] >= 0
              /\ pasted[k][1] + tile_w <= tileset.w
              /\ pasted[k][2] + tile_h <= tileset.h
              /\ \A p \in Pos(tile_w, tile_h) :
                    tileset.px[<<pasted[k][1] + p[1], pasted[k][2] + p[2]>>]
                        = tile_list[k].px[p]
              /\ \A j \in 1 .. k - 1 : Disjoint(pasted[j], pasted[k])
        /\ \A p \in Pos(tileset.w, tileset.h) :
              (\A k \in 1 .. i : ~InBlock(p, pasted[k]))
                  => tileset.px[p] = <<0, 0, 0, 0>>

\* seventeen tiles of 2 x 1 pixels packed: a full first row and one tile in
\* the second
C6_Witness ==
    /\ pc = "done"
    /\ Len(tile_list) = 17
    /\ tile_w = 2
    /\ tile_h = 1
    /\ Len(pasted) = 17

RedBlueImage ==
    [w |-> 16, h |-> 8,
     px |-> [p \in Pos(16, 8) |->
               IF p[1] < 8 THEN <<255, 0, 0, 255>> ELSE <<0, 0, 255, 255>>]]

\* an 8 x 8 tile of one colour
Solid8(colour) == [w |-> 8, h |-> 8, px |-> [p \in Pos(8, 8) |-> colour]]

\* C8: the red/blue 16 x 8 image with 8 x 8 tiles gives the list
\* [red, blue] and a 16 x 8 output equal to the input pixel by pixel.
C8_RedBlueEndToEnd ==
    (im = RedBlueImage /\ tile_w = 8 /\ tile_h = 8) =>
        /\ err = "none"
        /\ Scanned =>
              tile_list = <<Solid8(<<255, 0, 0, 255>>), Solid8(<<0, 0, 255, 255>>)>>
        /\ pc = "done" =>
              /\ saved.w = 16
              /\ saved.h = 8
              /\ \A p \in Pos(16, 8) : saved.px[p] = im.px[p]

\* the red/blue run has finished
C8_Witness ==
    /\ pc = "done"
    /\ im = RedBlueImage
    /\ tile_w = 8
    /\ tile_h = 8
    /\ saved # EmptyImage

\* C9: every run of create_tile_list followed by save_to_tileset ends, by
\* returning or by raising, for every image and every integer tile size,
\* zero and negative included.
C9_Terminates == <>(pc \in {"done", "error"})

\* runs with a zero or negative tile size that ended
C9_Witness ==
    /\ pc \in {"done", "error"}
    /\ tile_w < 0
    /\ tile_h > 0
    /\ rows > 0

\* the tiles of the scanned cells
CellTiles == {CellCrop(k) : k \in 1 .. Len(crops)}

\* the classes of equal tiles among the scanned cells
CellClasses == {{b \in CellTiles : tile_is_same(a, b)} : a \in CellTiles}

\* the orders in which the scanned cells can be visited
CellOrders ==
    {f \in [1 .. Len(crops) -> 1 .. Len(crops)] :
        \A j, k \in 1 .. Len(crops) : j # k => f[j] # f[k]}

\* the list built by scanning the cells in order f, from cell number k on
RECURSIVE ScanInOrder(_, _, _)
ScanInOrder(f, k, list) ==
    IF k > Len(crops) THEN list
    ELSE ScanInOrder(f, k + 1, DedupStep(list, CellCrop(f[k])))

\* C10: tile_is_same is reflexive, symmetric and transitive on the tiles of
\* the scanned cells; the number of tiles returned equals the number of
\* classes of equal cells and is the same for every scan order.
C10_EquivalenceAndCount ==
    pc = "save_to_tileset" =>
        /\ \A a \in CellTiles : tile_is_same(a, a)
        /\ \A a, b \in CellTiles : tile_is_same(a, b) = tile_is_same(b, a)
        /\ \A a, b, c \in CellTiles :
              (tile_is_same(a, b) /\ tile_is_same(b, c)) => tile_is_same(a, c)
        /\ Len(tile_list) = Cardinality(CellClasses)
        /\ Len(crops) <= MaxArea =>
              \A f \in CellOrders :
                  Len(ScanInOrder(f, 1, <<>>)) = Len(tile_list)

\* a finished scan of four cells in two classes, one class holding tiles
\* that differ behind transparency
C10_Witness ==
    /\ pc = "save_to_tileset"
    /\ Len(crops) = 4
    /\ Len(tile_list) = 2
    /\ Cardinality(CellTiles) = 3

====
